---- MODULE Spec2Model ----
(***************************************************************************)
(* Model of the HTTP CONNECT outbound adapter (adapter/outbound/http.go):  *)
(* NewHttp, DialContextWithDialer, StreamConn and shakeHand, together with *)
(* the collaborators they call (chain resolver, dialer, TLS handshake,     *)
(* stream read/write).  Texts are TLA+ strings handled byte by byte with   *)
(* Len, SubSeq and \o.                                                     *)
(***************************************************************************)
EXTENDS Integers, Sequences, FiniteSets, TLC

(***************************************************************************)
(* Bounds of the model.                                                    *)
(***************************************************************************)
\* the clock stops at MaxTime ticks
MaxTime == 3
\* nesting of chained dials the model follows
MaxDepth == 3

\* C.DefaultTLSTimeout, in clock ticks
DefaultTLSTimeout == 2

\* the nil error / nil connection
Nil == "<nil>"
\* a context without deadline
NoDeadline == -1
\* stand-in for a zero byte of a freshly made buffer
NUL == "~"
CRLF == "\r\n"

(***************************************************************************)
(* Text helpers (package strings, strconv).                                *)
(***************************************************************************)
RECURSIVE IndexFrom(_, _, _)
\* position of the first byte c of s at or after position i, 0 when none
IndexFrom(s, c, i) ==
    IF i > Len(s) THEN 0
    ELSE IF SubSeq(s, i, i) = c THEN i
    ELSE IndexFrom(s, c, i + 1)

RECURSIVE Split(_, _)
\* strings.Split(s, c) for a one-byte separator c
Split(s, c) ==
    LET i == IndexFrom(s, c, 1)
    IN  IF i = 0 THEN <<s>>
        ELSE <<SubSeq(s, 1, i - 1)>> \o Split(SubSeq(s, i + 1, Len(s)), c)

Digits == "0123456789"

RECURSIVE Itoa(_)
\* strconv.Itoa
Itoa(n) ==
    IF n < 0 THEN "-" \o Itoa(0 - n)
    ELSE IF n < 10 THEN SubSeq(Digits, n + 1, n + 1)
    ELSE Itoa(n \div 10) \o SubSeq(Digits, (n % 10) + 1, (n % 10) + 1)

IsDigit(c) == IndexFrom(Digits, c, 1) # 0

RECURSIVE Atoi(_)
\* strconv.Atoi of a non-empty string of digits
Atoi(s) ==
    IF Len(s) = 0 THEN 0
    ELSE Atoi(SubSeq(s, 1, Len(s) - 1)) * 10
         + (IndexFrom(Digits, SubSeq(s, Len(s), Len(s)), 1) - 1)

RECURSIVE Repeat(_, _)
Repeat(c, n) == IF n <= 0 THEN "" ELSE c \o Repeat(c, n - 1)

Min(a, b) == IF a < b THEN a ELSE b

(***************************************************************************)
(* encoding/base64, StdEncoding.                                           *)
(***************************************************************************)
StdAlphabet == "ABCDEFGHIJKLMNOPQRSTUVWXYZabcdefghijklmnopqrstuvwxyz0123456789+/"

\* byte value of the characters credentials are drawn from
Ord(c) ==
    CASE c = "u" -> 117
      [] c = "s" -> 115
      [] c = "p" -> 112
      [] c = "w" -> 119
      [] c = ":" -> 58

B64Char(i) == SubSeq(StdAlphabet, i + 1, i + 1)

RECURSIVE EncodeToString(_)
\* base64.StdEncoding.EncodeToString
EncodeToString(s) ==
    IF Len(s) = 0 THEN ""
    ELSE IF Len(s) = 1 THEN
        LET v == Ord(SubSeq(s, 1, 1)) * 65536
        IN  B64Char(v \div 262144) \o B64Char((v \div 4096) % 64) \o "=="
    ELSE IF Len(s) = 2 THEN
        LET v == Ord(SubSeq(s, 1, 1)) * 65536 + Ord(SubSeq(s, 2, 2)) * 256
        IN  B64Char(v \div 262144) \o B64Char((v \div 4096) % 64)
            \o B64Char((v \div 64) % 64) \o "="
    ELSE
        LET v == Ord(SubSeq(s, 1, 1)) * 65536 + Ord(SubSeq(s, 2, 2)) * 256
                 + Ord(SubSeq(s, 3, 3))
        IN  B64Char(v \div 262144) \o B64Char((v \div 4096) % 64)
            \o B64Char((v \div 64) % 64) \o B64Char(v % 64)
            \o EncodeToString(SubSeq(s, 4, Len(s)))

(***************************************************************************)
(* net/textproto and net/http helpers used by the structured request.      *)
(***************************************************************************)
LowerCase == "abcdefghijklmnopqrstuvwxyz"
UpperCase == "ABCDEFGHIJKLMNOPQRSTUVWXYZ"
\* the bytes of header keys in ascending byte order
ByteOrder == "-0123456789ABCDEFGHIJKLMNOPQRSTUVWXYZabcdefghijklmnopqrstuvwxyz"

ToUpper(c) ==
    LET i == IndexFrom(LowerCase, c, 1)
    IN  IF i = 0 THEN c ELSE SubSeq(UpperCase, i, i)

ToLower(c) ==
    LET i == IndexFrom(UpperCase, c, 1)
    IN  IF i = 0 THEN c ELSE SubSeq(LowerCase, i, i)

RECURSIVE CanonicalFrom(_, _, _)
CanonicalFrom(k, i, upper) ==
    IF i > Len(k) THEN ""
    ELSE LET c == SubSeq(k, i, i)
         IN  (IF upper THEN ToUpper(c) ELSE ToLower(c))
             \o CanonicalFrom(k, i + 1, c = "-")

\* textproto.CanonicalMIMEHeaderKey
CanonicalMIMEHeaderKey(k) == CanonicalFrom(k, 1, TRUE)

RECURSIVE StrLess(_, _)
\* a < b in byte order
StrLess(a, b) ==
    IF Len(b) = 0 THEN FALSE
    ELSE IF Len(a) = 0 THEN TRUE
    ELSE LET x == IndexFrom(ByteOrder, SubSeq(a, 1, 1), 1)
             y == IndexFrom(ByteOrder, SubSeq(b, 1, 1), 1)
         IN  IF x # y THEN x < y
             ELSE StrLess(SubSeq(a, 2, Len(a)), SubSeq(b, 2, Len(b)))

\* the orders in which a range over a Go map with key set S may visit it
Orders(S) ==
    { o \in [1..Cardinality(S) -> S] :
        \A i, j \in 1..Cardinality(S) : i # j => o[i] # o[j] }

\* the keys of S in ascending order (http.Header.Write sorts the keys)
SortedKeys(S) ==
    CHOOSE o \in Orders(S) :
        \A i \in 1..(Cardinality(S) - 1) : StrLess(o[i], o[i + 1])

\* http.Header.Add
HeaderAdd(hdr, key, value) ==
    LET k == CanonicalMIMEHeaderKey(key)
    IN  IF k \in DOMAIN hdr THEN [hdr EXCEPT ![k] = Append(@, value)]
        ELSE hdr @@ (k :> <<value>>)

RECURSIVE HeaderValueLines(_, _, _)
HeaderValueLines(k, vals, i) ==
    IF i > Len(vals) THEN ""
    ELSE k \o ": " \o vals[i] \o CRLF \o HeaderValueLines(k, vals, i + 1)

RECURSIVE HeaderWrite(_, _, _)
\* http.Header.WriteSubset: one line per value, keys in order ks
HeaderWrite(hdr, ks, i) ==
    IF i > Len(ks) THEN ""
    ELSE HeaderValueLines(ks[i], hdr[ks[i]], 1) \o HeaderWrite(hdr, ks, i + 1)

\* headers http.Request.Write emits itself and skips in Header
ReqWriteExcludeHeader ==
    {"Host", "User-Agent", "Content-Length", "Transfer-Encoding", "Trailer"}

\* http.Request.Write of a CONNECT request without body
RequestWrite(req) ==
    "CONNECT " \o req.Host \o " HTTP/1.1" \o CRLF
    \o "Host: " \o req.Host \o CRLF
    \o "User-Agent: "
    \o (IF "User-Agent" \in DOMAIN req.Header
        THEN req.Header["User-Agent"][1] ELSE "Go-http-client/1.1") \o CRLF
    \o HeaderWrite(req.Header,
                   SortedKeys(DOMAIN req.Header \ ReqWriteExcludeHeader), 1)
    \o CRLF

RECURSIVE TrimLeftSpace(_)
TrimLeftSpace(s) ==
    IF Len(s) > 0 /\ SubSeq(s, 1, 1) = " "
    THEN TrimLeftSpace(SubSeq(s, 2, Len(s))) ELSE s

TrimCR(s) ==
    IF Len(s) > 0 /\ SubSeq(s, Len(s), Len(s)) = "\r"
    THEN SubSeq(s, 1, Len(s) - 1) ELSE s

RECURSIVE AllDigits(_)
AllDigits(s) ==
    Len(s) = 0 \/ (IsDigit(SubSeq(s, 1, 1)) /\ AllDigits(SubSeq(s, 2, Len(s))))

RECURSIVE HeaderEnd(_, _)
\* index in lines of the blank line that ends the header block, 0 when none
HeaderEnd(lines, i) ==
    IF i >= Len(lines) THEN 0
    ELSE IF TrimCR(lines[i]) = "" THEN i
    ELSE HeaderEnd(lines, i + 1)

\* http.ReadResponse on the bytes data the remote sends before it stops
ReadResponse(data) ==
    LET lines  == Split(data, "\n")
        line   == TrimCR(lines[1])
        sp     == IndexFrom(line, " ", 1)
        proto  == SubSeq(line, 1, sp - 1)
        status == TrimLeftSpace(SubSeq(line, sp + 1, Len(line)))
        code   == Split(status, " ")[1]
        bad(e) == [err |-> e, StatusCode |-> 0, Status |-> ""]
    IN  IF Len(lines) < 2 THEN bad("unexpected EOF")
        ELSE IF sp = 0 THEN bad("malformed HTTP response")
        ELSE IF Len(code) # 3 \/ ~AllDigits(code)
             THEN bad("malformed HTTP status code")
        ELSE IF proto \notin {"HTTP/1.0", "HTTP/1.1"}
             THEN bad("malformed HTTP version")
        ELSE IF HeaderEnd(lines, 2) = 0 THEN bad("unexpected EOF")
        ELSE [err |-> Nil, StatusCode |-> Atoi(code), Status |-> status]

(***************************************************************************)
(* The adapter: NewHttp and the request and classification logic of        *)
(* shakeHand.                                                              *)
(***************************************************************************)
\* net.JoinHostPort for a host without colon
JoinHostPort(host, port) == host \o ":" \o port

\* the fingerprint identifiers the TLS component knows
KnownFingerprints == {"chrome"}

\* tlsC.GetGlobalTLSConfig: the configuration with the default profile
GetGlobalTLSConfig(cfg) ==
    [ ServerName |-> cfg.ServerName,
      InsecureSkipVerify |-> cfg.InsecureSkipVerify, Profile |-> "default" ]

\* tlsC.GetSpecifiedFingerprintTLSConfig: the configuration with the
\* profile of the fingerprint, or an error
GetSpecifiedFingerprintTLSConfig(cfg, fingerprint) ==
    IF fingerprint \in KnownFingerprints
    THEN [ err |-> Nil,
           cfg |-> << [ ServerName |-> cfg.ServerName,
                        InsecureSkipVerify |-> cfg.InsecureSkipVerify,
                        Profile |-> fingerprint ] >> ]
    ELSE [ err |-> "UnknownFingerprintError: " \o fingerprint, cfg |-> << >> ]

\* the TLS configuration NewHttp builds.  A pointer is a sequence of
\* length 0 (nil) or 1.
NewTLSConfigAlways(option) ==
    LET cfg == [ ServerName |-> IF option.SNI # "" THEN option.SNI
                                ELSE option.Server,
                 InsecureSkipVerify |-> option.SkipCertVerify ]
    IN  [ err |-> Nil, cfg |-> << GetGlobalTLSConfig(cfg) >> ]
NewTLSConfig(option) ==
    LET cfg == [ ServerName |-> IF option.SNI # "" THEN option.SNI
                                ELSE option.Server,
                 InsecureSkipVerify |-> option.SkipCertVerify ]
    IN  IF ~option.TLS THEN [ err |-> Nil, cfg |-> << >> ]
        ELSE IF Len(option.Fingerprint) = 0
        THEN [ err |-> Nil, cfg |-> << GetGlobalTLSConfig(cfg) >> ]
        ELSE GetSpecifiedFingerprintTLSConfig(cfg, option.Fingerprint)

\* NewHttp: the (*Http, error) built from an HttpOption
NewHttp(option) ==
    LET tls == NewTLSConfig(option)
    IN  IF tls.err # Nil THEN [ err |-> tls.err, h |-> << >> ]
        ELSE [ err |-> Nil,
               h   |-> << [ name      |-> option.Name,
                            addr      |-> JoinHostPort(option.Server,
                                                       Itoa(option.Port)),
                            user      |-> option.UserName,
                            pass      |-> option.Password,
                            tlsConfig |-> tls.cfg,
                            option    |-> option ] >> ]

\* the test that selects the request variant
UsesExplicitHeaders(h) == "Host" \in DOMAIN h.option.Headers

\* the test guarding the Proxy-Authorization header
HasCredentialsEither(h) == h.user # "" \/ h.pass # ""
HasCredentials(h) == h.user # "" /\ h.pass # ""

\* the value of the Proxy-Authorization header
BasicAuth(h) == "Basic " \o EncodeToString(h.user \o ":" \o h.pass)

RECURSIVE ExplicitHeaderLines(_, _, _)
\* the loop over h.option.Headers in explicit-header mode, in visit order
ExplicitHeaderLines(headers, order, i) ==
    IF i > Len(order) THEN ""
    ELSE order[i] \o ": " \o headers[order[i]] \o CRLF
         \o ExplicitHeaderLines(headers, order, i + 1)

\* the bytes shakeHand builds in explicit-header mode
ExplicitRequest(h, addr, order) ==
    "CONNECT " \o addr \o "HTTP/1.1" \o CRLF
    \o ExplicitHeaderLines(h.option.Headers, order, 1)
    \o (IF HasCredentials(h)
        THEN "Proxy-Authorization: " \o BasicAuth(h) \o CRLF ELSE "")
    \o CRLF

RECURSIVE AddHeaders(_, _, _, _)
\* the loop over h.option.Headers in structured mode, in visit order
AddHeaders(hdr, headers, order, i) ==
    IF i > Len(order) THEN hdr
    ELSE AddHeaders(HeaderAdd(hdr, order[i], headers[order[i]]),
                    headers, order, i + 1)

\* the http.Request shakeHand builds in structured mode
StructuredRequest(h, addr, order) ==
    LET h0 == "Proxy-Connection" :> <<"Keep-Alive">>
        h1 == AddHeaders(h0, h.option.Headers, order, 1)
        h2 == IF HasCredentials(h)
              THEN HeaderAdd(h1, "Proxy-Authorization", BasicAuth(h)) ELSE h1
    IN  [ Method |-> "CONNECT", URLHost |-> addr, Host |-> addr, Header |-> h2 ]

\* the bytes on the wire for either variant
RequestBytes(h, addr, order) ==
    IF UsesExplicitHeaders(h) THEN ExplicitRequest(h, addr, order)
    ELSE RequestWrite(StructuredRequest(h, addr, order))

\* what shakeHand returns when the request write failed with werr
WriteFailureResult(h, werr) ==
    IF UsesExplicitHeaders(h) THEN Nil ELSE werr

\* what shakeHand returns when the response read failed with rerr
ReadFailureResult(h, rerr) ==
    IF UsesExplicitHeaders(h) THEN Nil ELSE rerr

\* explicit-header mode: classification of the buffer rd after a good read
ClassifyExplicitFormatted(rd) ==
    LET line == Split(rd, "\n")[1]
        toks == Split(line, " ")
    IN  IF Len(toks) < 2 THEN [panic |-> TRUE, err |-> Nil]
        ELSE [ panic |-> FALSE,
               err   |-> CASE toks[2] = "200" -> Nil
                           [] toks[2] = "407" -> "HTTP need auth"
                           [] toks[2] = "405" ->
                                "CONNECT method not allowed by proxy"
                           [] OTHER -> "can not connect remote err code: "
                                         \o toks[2] ]
ClassifyExplicit(rd) ==
    LET line == Split(rd, "\n")[1]
        toks == Split(line, " ")
    IN  IF Len(toks) < 2 THEN [panic |-> TRUE, err |-> Nil]
        ELSE [ panic |-> FALSE,
               err   |-> CASE toks[2] = "200" -> Nil
                           [] toks[2] = "407" -> "HTTP need auth"
                           [] toks[2] = "405" ->
                                "CONNECT method not allowed by proxy"
                           [] OTHER -> rd ]

\* structured mode: classification of a parsed response
ClassifyStructuredNo5xx(resp) ==
    IF resp.StatusCode = 200 THEN Nil
    ELSE IF resp.StatusCode = 407 THEN "HTTP need auth"
    ELSE IF resp.StatusCode = 405 THEN "CONNECT method not allowed by proxy"
    ELSE "can not connect remote err code: " \o Itoa(resp.StatusCode)
ClassifyStructured(resp) ==
    IF resp.StatusCode = 200 THEN Nil
    ELSE IF resp.StatusCode = 407 THEN "HTTP need auth"
    ELSE IF resp.StatusCode = 405 THEN "CONNECT method not allowed by proxy"
    ELSE IF resp.StatusCode >= 500 THEN resp.Status
    ELSE "can not connect remote err code: " \o Itoa(resp.StatusCode)

\* the newline-free texts of the errors the pipeline wraps
ConnectError(h, err) == h.addr \o " connect error: " \o err

(***************************************************************************)
(* Inputs: adapter options, caller deadlines, remote behaviour.            *)
(***************************************************************************)
\* the registered adapter names; "X" names no adapter
Names == {"A", "B"}
\* metadata.RemoteAddress() of the top-level call
Target == "t:443"

Users == {"", "u", "us"}
Passes == {"", "p", "pw"}
Deadlines == {NoDeadline, 1, 3}

NoHeaders == << >>
HeaderMaps ==
    { NoHeaders,
      "Host" :> "h",
      ("Host" :> "h") @@ ("X-T" :> "v"),
      "X-T" :> "v",
      "host" :> "h",
      "Proxy-Authorization" :> "Basic eA==",
      ("Host" :> "h") @@ ("Proxy-Authorization" :> "Basic eA==") }

Option(name, user, pass, tls, headers, proxy) ==
    [ Name |-> name, Server |-> (IF name = "A" THEN "a" ELSE "b"),
      Port |-> 80, UserName |-> user, Password |-> pass, TLS |-> tls,
      SNI |-> "", SkipCertVerify |-> FALSE, Fingerprint |-> "",
      Headers |-> headers, DialerProxy |-> proxy ]

\* adapter sets exercising the pipeline: chains, TLS, deadlines
PipelineConfigs ==
    { [ A |-> Option("A", "u", "p", ta, ha, pa),
        B |-> Option("B", "", "", tb, NoHeaders, pb),
        deadline |-> d ] :
        <<ta, ha, pa, tb, pb, d>> \in
          { x \in BOOLEAN \X {NoHeaders, "Host" :> "h"} \X {"", "A", "B", "X"}
                  \X BOOLEAN \X {"", "A", "X"} \X Deadlines :
              x[3] # "B" => (x[4] = FALSE /\ x[5] = "") } }

\* adapter sets exercising the handshake: credentials and headers
HandshakeConfigs ==
    { [ A |-> Option("A", u, p, FALSE, ha, ""),
        B |-> Option("B", "", "", FALSE, NoHeaders, ""),
        deadline |-> NoDeadline ] :
        u \in Users, p \in Passes, ha \in HeaderMaps }

Resp(code, reason) == "HTTP/1.1 " \o code \o " " \o reason \o CRLF \o CRLF

\* what the remote may send in answer to the request
RemoteResponses ==
    { Resp("200", "OK"), Resp("200", "Connection established"),
      Resp("407", "Auth"), Resp("405", "No"), Resp("500", "Oops"),
      Resp("503", "Busy"), Resp("999", "X"), Resp("100", "Continue"),
      Resp("204", "None"), Resp("404", "Gone"), Resp("499", "Q"),
      "HTTP/1.1 200" \o CRLF \o CRLF, Resp("20", "Short"),
      "junk" \o CRLF \o CRLF }

\* the byte counts one Read may return for data into a buffer of size total
ReadSizes(data, total) ==
    { n \in {1, 12} : n <= Len(data) /\ n <= total }
    \cup { Min(Len(data), total) }

\* the tunnel bytes that may arrive right behind the response data to a
\* CONNECT to target: only a response with status 200 opens the tunnel, and
\* only the final target speaks first (a proxy waits for its request)
Following(data, target) ==
    IF target = Target /\ Len(data) >= 12 /\ SubSeq(data, 10, 12) = "200"
    THEN {"", "PAYLOAD"} ELSE {""}

\* the byte counts the bufio.Reader of ReadResponse may have taken from the
\* stream when the response data is parsed and after follows it: its Read
\* takes whatever has arrived, up to the size of its buffer
BufferedSizes(data, after) == {Len(data), Len(data) + Len(after)}

DialErrors == {"connection refused"}
TLSErrors == {"x509: certificate signed by unknown authority"}
WriteErrors == {"write: broken pipe"}
ReadErrors == {"EOF"}

(***************************************************************************)
(* State.                                                                  *)
(***************************************************************************)
VARIABLES
    adapters,   \* the adapter registry: name -> Http
    deadline,   \* deadline of the caller's context, NoDeadline when none
    cancelled,  \* the caller's context has been cancelled
    now,        \* the clock
    stack,      \* the nested DialContextWithDialer calls, outermost first
    stream,     \* the transport stream: "none", "open" or "closed"
    io,         \* the network operations performed, oldest first
    built,      \* the NewHttp constructions made, oldest first
    calls       \* concurrent calls: call -> its state

vars == <<adapters, deadline, cancelled, now, stack, stream, io, built, calls>>

Pending == "<pending>"

Top == stack[Len(stack)]

\* a call frame of DialContextWithDialer on adapter name for target
Frame(name, target) ==
    [ h |-> name, target |-> target, pc |-> "start", via |-> "",
      tlsStart |-> 0, total |-> 0, log |-> << >>, c |-> Nil, err |-> Nil ]

LogStart(f, stage) ==
    [f EXCEPT !.log = Append(@, [stage |-> stage, err |-> Pending])]
LogEnd(f, err) == [f EXCEPT !.log[Len(f.log)].err = err]

\* a network operation starts; the clock is recorded for TLS handshakes
IoStart(log, kind, f, depth) ==
    LET t == IF kind = "tls" THEN now ELSE 0
    IN  Append(log, [ kind |-> kind, h |-> f.h, depth |-> depth, data |-> "",
                      err |-> Pending, t0 |-> t, t1 |-> t,
                      off |-> 0 ])
\* the read in flight ends with the stream off bytes behind the end of the
\* response (before it when negative)
IoEndRead(log, data, err, off) ==
    [log EXCEPT ![Len(log)].data = data, ![Len(log)].err = err,
                ![Len(log)].off = off]
\* the network operation in flight ends
IoEnd(log, data, err) ==
    [log EXCEPT ![Len(log)].data = data, ![Len(log)].err = err,
                ![Len(log)].t1 = IF log[Len(log)].kind = "tls" THEN now ELSE 0]

SetTop(f) == [stack EXCEPT ![Len(stack)] = f]

\* the caller's context is done, and its error
CtxDone == cancelled \/ (deadline # NoDeadline /\ now >= deadline)
CtxErr == IF cancelled THEN "context canceled" ELSE "context deadline exceeded"

\* the top-level call has not returned
Running == Top.pc # "panic" /\ ~(Len(stack) = 1 /\ Top.pc = "done")

\* the adapters whose DialContextWithDialer is on the call stack
Dialing == { stack[i].h : i \in 1..Len(stack) }

\* the record of the construction of an adapter from option
Built(option) == [ option |-> option, res |-> NewHttp(option) ]

Init ==
    /\ \E cfg \in PipelineConfigs \cup HandshakeConfigs :
         /\ built = << Built(cfg.A), Built(cfg.B) >>
         /\ deadline = cfg.deadline
    /\ \A i \in 1..Len(built) : built[i].res.err = Nil
    /\ adapters = [ n \in { built[i].option.Name : i \in 1..Len(built) } |->
                      LET i == CHOOSE j \in 1..Len(built) :
                                   built[j].option.Name = n
                      IN  built[i].res.h[1] ]
    /\ cancelled = FALSE
    /\ now = 0
    /\ stack = << Frame("A", Target) >>
    /\ stream = "none"
    /\ io = << >>
    /\ calls = << >>

(***************************************************************************)
(* Collaborators of the pipeline.                                          *)
(***************************************************************************)
\* proxydialer.NewByName: the dialer through the adapter called name, for a
\* call whose stack of chained dials already runs the adapters in dialing
NewByNameNoCycleCheck(name, dialing) ==
    IF name \notin DOMAIN adapters
    THEN [err |-> "UnknownAdapterError: " \o name, proxy |-> ""]
    ELSE [err |-> Nil, proxy |-> name]
NewByName(name, dialing) ==
    IF name \notin DOMAIN adapters
    THEN [err |-> "UnknownAdapterError: " \o name, proxy |-> ""]
    ELSE IF name \in dialing
    THEN [err |-> "ChainCycleError: " \o name, proxy |-> ""]
    ELSE [err |-> Nil, proxy |-> name]

\* safeConnClose(c, err) on a non-nil c
SafeConnClose(s, err) == IF err # Nil THEN "closed" ELSE s

\* NewConn(c, h)
NewConn(h) == "conn@" \o h.name

(***************************************************************************)
(* DialContextWithDialer and StreamConn.                                   *)
(***************************************************************************)
\* the dialer DialContextWithDialer dials with: proxy "" is the dialer it
\* was given
SelectDialerIgnoreErr(h, dialing) ==
    LET r == NewByName(h.option.DialerProxy, dialing)
    IN  IF Len(h.option.DialerProxy) > 0 /\ r.err = Nil THEN r
        ELSE [err |-> Nil, proxy |-> ""]
SelectDialer(h, dialing) ==
    IF Len(h.option.DialerProxy) > 0
    THEN NewByName(h.option.DialerProxy, dialing)
    ELSE [err |-> Nil, proxy |-> ""]

\* the deferred safeConnClose(c, err), run when the call returns err
DeferredCloseEager(s, err) == SafeConnClose(s, Nil)
DeferredClose(s, err) == SafeConnClose(s, err)

\* StreamConn performs a TLS handshake
UsesTLS(h) == Len(h.tlsConfig) > 0

\* the context of HandshakeContext is done for the handshake of frame f
HandshakeCtxDoneCaller(f) == CtxDone
HandshakeCtxDone(f) == now - f.tlsStart >= DefaultTLSTimeout

\* StreamConn gives up after a TLS handshake that returned err
TLSFailedNever(err) == FALSE
TLSFailed(err) == err # Nil

\* StreamConn and DialContextWithDialer give up after shakeHand returned err
ShakeFailed(err) == err # Nil

\* the frame when the call returns err (nil: the wrapped connection)
ReturnRetryOnce(f, err) ==
    IF err # Nil /\ Len(SelectSeq(f.log, LAMBDA e : e.stage = "resolve")) < 2
    THEN [f EXCEPT !.pc = "start", !.via = ""]
    ELSE [f EXCEPT !.pc = "done", !.err = err,
                   !.c = IF err = Nil THEN NewConn(adapters[f.h]) ELSE Nil]
Return(f, err) ==
    [f EXCEPT !.pc = "done", !.err = err,
              !.c = IF err = Nil THEN NewConn(adapters[f.h]) ELSE Nil]

\* StreamConn is entered with the dialled stream
EnterStreamConn(f) ==
    IF UsesTLS(adapters[f.h])
    THEN [LogStart(f, "tls") EXCEPT !.pc = "tls", !.tlsStart = now]
    ELSE [LogStart(f, "handshake") EXCEPT !.pc = "shake"]

\* the frame once shakeHand has ended with r
ShakeReturn(f, r) ==
    IF r.panic THEN [f EXCEPT !.pc = "panic"]
    ELSE IF ShakeFailed(r.err) THEN Return(LogEnd(f, r.err), r.err)
    ELSE Return(LogEnd(LogStart(LogEnd(f, Nil), "wrap"), Nil), Nil)

\* DialContextWithDialer up to the dial: chain resolution, then the dial is
\* started, through the named adapter when there is one
Resolve ==
    /\ Top.pc = "start"
    /\ LET f == LogStart(Top, "resolve")
           h == adapters[f.h]
           r == SelectDialer(h, Dialing)
           g == LogStart(LogEnd(f, Nil), "dial")
       IN  IF r.err # Nil
           THEN /\ stack' = SetTop(Return(LogEnd(f, r.err), r.err))
                /\ io' = io
           ELSE IF r.proxy = ""
           THEN /\ stack' = SetTop([g EXCEPT !.pc = "dial"])
                /\ io' = IoStart(io, "dial", f, Len(stack))
           ELSE /\ Len(stack) < MaxDepth
                /\ stack' = Append(SetTop([g EXCEPT !.pc = "dial",
                                                    !.via = r.proxy]),
                                   Frame(r.proxy, h.addr))
                /\ io' = io
    /\ UNCHANGED <<built, calls, adapters, deadline, cancelled, now, stream>>

\* the given dialer connects; StreamConn starts
DialOK ==
    /\ Top.pc = "dial" /\ Top.via = ""
    /\ ~CtxDone
    /\ stream' = "open"
    /\ LET f == EnterStreamConn(LogEnd(Top, Nil))
       IN  /\ stack' = SetTop(f)
           /\ io' = IF f.pc = "tls"
                    THEN IoStart(IoEnd(io, "", Nil), "tls", f, Len(stack))
                    ELSE IoEnd(io, "", Nil)
    /\ UNCHANGED <<built, calls, adapters, deadline, cancelled, now>>

\* the given dialer fails, or gives up because the context is done
DialFail ==
    /\ Top.pc = "dial" /\ Top.via = ""
    /\ \E e \in (IF CtxDone THEN {CtxErr} ELSE DialErrors) :
         LET err == ConnectError(adapters[Top.h], e)
         IN  /\ stack' = SetTop(Return(LogEnd(Top, err), err))
             /\ io' = IoEnd(io, "", e)
    /\ UNCHANGED <<built, calls, adapters, deadline, cancelled, now, stream>>

\* the chained dialer returns what the named adapter's call returned
ChainedDialReturn ==
    /\ Len(stack) > 1 /\ Top.pc = "done"
    /\ LET inner == Top
           outer == stack[Len(stack) - 1]
           rest  == SubSeq(stack, 1, Len(stack) - 2)
       IN  IF inner.err # Nil
           THEN LET err == ConnectError(adapters[outer.h], inner.err)
                IN  /\ stack' = Append(rest, Return(LogEnd(outer, err), err))
                    /\ io' = io
           ELSE LET f == EnterStreamConn(LogEnd(outer, Nil))
                IN  /\ stack' = Append(rest, f)
                    /\ io' = IF f.pc = "tls"
                             THEN IoStart(io, "tls", f, Len(stack) - 1)
                             ELSE io
    /\ UNCHANGED <<built, calls, adapters, deadline, cancelled, now, stream>>

\* HandshakeContext has returned e; StreamConn goes on or gives up
TLSReturn(e) ==
    /\ io' = IoEnd(io, "", e)
    /\ IF TLSFailed(e)
       THEN LET err == ConnectError(adapters[Top.h], e)
            IN  /\ stack' = SetTop(Return(LogEnd(Top, err), err))
                /\ stream' = DeferredClose(stream, err)
       ELSE /\ stack' = SetTop([LogStart(LogEnd(Top, e), "handshake")
                                  EXCEPT !.pc = "shake"])
            /\ stream' = stream
    /\ UNCHANGED <<built, calls, adapters, deadline, cancelled, now>>

\* the remote completes or fails the TLS handshake in time
TLSHandshakeDone ==
    /\ Top.pc = "tls"
    /\ ~HandshakeCtxDone(Top)
    /\ \E e \in {Nil} \cup TLSErrors : TLSReturn(e)

\* the context of the TLS handshake expires
TLSTimeout ==
    /\ Top.pc = "tls"
    /\ HandshakeCtxDone(Top)
    /\ TLSReturn("context deadline exceeded")

\* shakeHand builds and writes the request
ShakeWrite ==
    /\ Top.pc = "shake"
    /\ LET h == adapters[Top.h]
       IN  \E order \in Orders(DOMAIN h.option.Headers),
              werr \in {Nil} \cup WriteErrors :
             LET data == RequestBytes(h, Top.target, order)
                 w    == IoEnd(IoStart(io, "write", Top, Len(stack)),
                               data, werr)
             IN  IF werr # Nil
                 THEN LET r == [panic |-> FALSE,
                                err |-> WriteFailureResult(h, werr)]
                      IN  /\ stack' = SetTop(ShakeReturn(Top, r))
                          /\ stream' = DeferredClose(stream, r.err)
                          /\ io' = w
                 ELSE /\ stack' = SetTop([Top EXCEPT !.pc = "read",
                                                     !.total = Len(data)])
                      /\ stream' = stream
                      /\ io' = IoStart(w, "read", Top, Len(stack))
    /\ UNCHANGED <<built, calls, adapters, deadline, cancelled, now>>

\* where the stream stands when shakeHand returns r after taking pos bytes
\* of a stream that holds a response of resp bytes: the offset from the end
\* of the response.  A stream that is about to be closed has no position.
StreamOffset(r, resp, pos) ==
    IF r.panic \/ r.err # Nil THEN 0 ELSE pos - resp

\* the outcome r of shakeHand after its read, what the read returned, the
\* length of the response and the number of bytes taken from the stream
ShakeReadEnd(r, data, rerr, resp, pos) ==
    /\ stack' = SetTop(ShakeReturn(Top, r))
    /\ stream' = DeferredClose(stream, r.err)
    /\ io' = IoEndRead(io, data, rerr, StreamOffset(r, resp, pos))

\* shakeHand reads and classifies the response
ShakeRead ==
    /\ Top.pc = "read"
    /\ LET h == adapters[Top.h]
       IN  \/ \E rerr \in ReadErrors :
                ShakeReadEnd([panic |-> FALSE,
                              err |-> ReadFailureResult(h, rerr)], "", rerr,
                             0, 0)
           \/ /\ UsesExplicitHeaders(h)
              /\ \E data \in RemoteResponses :
                   \E after \in Following(data, Top.target) :
                     \E n \in ReadSizes(data \o after, Top.total) :
                       LET rd == SubSeq(data \o after, 1, n)
                                   \o Repeat(NUL, Top.total - n)
                       IN  ShakeReadEnd(ClassifyExplicit(rd), rd, Nil,
                                        Len(data), n)
           \/ /\ ~UsesExplicitHeaders(h)
              /\ \E data \in RemoteResponses :
                   \E after \in Following(data, Top.target) :
                     \E pos \in BufferedSizes(data, after) :
                       LET resp == ReadResponse(data)
                       IN  IF resp.err # Nil
                           THEN ShakeReadEnd([panic |-> FALSE,
                                              err |-> resp.err],
                                             data, resp.err, Len(data), pos)
                           ELSE ShakeReadEnd([panic |-> FALSE,
                                              err |-> ClassifyStructured(resp)],
                                             data, Nil, Len(data), pos)
    /\ UNCHANGED <<built, calls, adapters, deadline, cancelled, now>>

\* time passes while an operation blocks; a dial ends when the caller's
\* context is done, a TLS handshake when its own context is done
Tick ==
    /\ now < MaxTime
    /\ \/ Top.pc = "dial" /\ Top.via = "" /\ ~CtxDone
       \/ Top.pc = "tls" /\ ~HandshakeCtxDone(Top)
       \/ Top.pc = "read"
    /\ now' = now + 1
    /\ UNCHANGED <<built, calls, adapters, deadline, cancelled, stack, stream, io>>

\* the caller cancels its context
Cancel ==
    /\ Running
    /\ ~cancelled
    /\ cancelled' = TRUE
    /\ UNCHANGED <<built, calls, adapters, deadline, now, stack, stream, io>>

Next ==
    \/ Resolve
    \/ DialOK
    \/ DialFail
    \/ ChainedDialReturn
    \/ TLSHandshakeDone
    \/ TLSTimeout
    \/ ShakeWrite
    \/ ShakeRead
    \/ Tick
    \/ Cancel

Spec == Init /\ [][Next]_vars

(***************************************************************************)
(* Construction alone: NewHttp applied to one option out of NewOptions.    *)
(***************************************************************************)
Ports == {-1, 0, 1, 80, 8080, 65535, 65536}
Fingerprints == {"", "chrome", "bogus"}

NewOptions ==
    { [ Option("A", "", "", tls, NoHeaders, "") EXCEPT
          !.Port = port, !.SNI = sni, !.SkipCertVerify = skip,
          !.Fingerprint = fp ] :
        port \in Ports, tls \in BOOLEAN, sni \in {"", "s"},
        skip \in BOOLEAN, fp \in Fingerprints }

InitNew ==
    /\ built = << >>
    /\ adapters = << >>
    /\ deadline = NoDeadline
    /\ cancelled = FALSE
    /\ now = 0
    /\ stack = << >>
    /\ stream = "none"
    /\ io = << >>
    /\ calls = << >>

\* NewHttp(option) is called
Construct ==
    /\ built = << >>
    /\ \E option \in NewOptions : built' = << Built(option) >>
    /\ UNCHANGED <<calls, adapters, deadline, cancelled, now, stack, stream, io>>

NextNew == Construct

SpecNew == InitNew /\ [][NextNew]_vars

(***************************************************************************)
(* Concurrent calls: NCalls calls of DialContext run interleaved on the    *)
(* adapters of one registry, each against its own remote.  A call is a     *)
(* record; CallStep is one step of its pipeline as a function of the       *)
(* registry it reads and of what the remote does.                          *)
(***************************************************************************)
NCalls == 2

\* the registry of the concurrent calls: A writes explicit headers over
\* TLS, B a structured request over TCP
CallConfigs ==
    { [ A |-> Option("A", "u", "p", TRUE, "Host" :> "h", ""),
        B |-> Option("B", "u", "p", FALSE, NoHeaders, "") ] }

\* what the remotes of the concurrent calls may answer
CallResponses ==
    { Resp("200", "OK"), Resp("407", "Auth"),
      "HTTP/1.1 200" \o CRLF \o CRLF, "junk" \o CRLF \o CRLF }

\* a call of DialContext on the adapter called name, not yet started
NewCall(name) ==
    [ h |-> name, pc |-> "start", total |-> 0, err |-> Nil, c |-> Nil,
      stream |-> "none", wrote |-> "", seen |-> << >> ]

\* what the environment of a call does at one step of the call
Event(kind, err, data, n, order) ==
    [ kind |-> kind, err |-> err, data |-> data, n |-> n, order |-> order ]

\* the events that may meet call c reading registry reg
RemoteEvents(reg, c) ==
    CASE c.pc = "start" -> { Event("resolve", Nil, "", 0, << >>) }
      [] c.pc = "dial" ->
           { Event("dial", e, "", 0, << >>) : e \in {Nil} \cup DialErrors }
      [] c.pc = "tls" ->
           { Event("tls", e, "", 0, << >>) :
               e \in {Nil, "context deadline exceeded"} \cup TLSErrors }
      [] c.pc = "shake" ->
           { Event("write", e, "", 0, order) :
               e \in {Nil} \cup WriteErrors,
               order \in Orders(DOMAIN reg[c.h].option.Headers) }
      [] c.pc = "read" ->
           { Event("read", e, "", 0, << >>) : e \in ReadErrors }
           \cup UNION { { Event("read", Nil, data, n, << >>) :
                            n \in ReadSizes(data, c.total) } :
                        data \in CallResponses }
      [] OTHER -> {}

\* call c returns err from adapter h (nil: the wrapped connection); the
\* deferred close runs once the dial has produced a stream
CallReturn(c, h, err) ==
    [c EXCEPT !.pc = "done", !.err = err,
              !.c = IF err = Nil THEN NewConn(h) ELSE Nil,
              !.stream = IF c.stream = "none" THEN "none"
                         ELSE DeferredClose(c.stream, err)]

\* call c once shakeHand has ended with r
CallShakeReturn(c, h, r) ==
    IF r.panic THEN [c EXCEPT !.pc = "panic"]
    ELSE CallReturn(c, h, IF ShakeFailed(r.err) THEN r.err ELSE Nil)

\* one step of call c reading registry reg when ev happens
CallStep(reg, c, ev) ==
    LET h == reg[c.h]
    IN  CASE ev.kind = "resolve" ->
               LET r == SelectDialer(h, {c.h})
               IN  IF r.err # Nil THEN CallReturn(c, h, r.err)
                   ELSE [c EXCEPT !.pc = "dial"]
          [] ev.kind = "dial" ->
               IF ev.err # Nil
               THEN CallReturn(c, h, ConnectError(h, ev.err))
               ELSE [c EXCEPT !.stream = "open",
                              !.pc = IF UsesTLS(h) THEN "tls" ELSE "shake"]
          [] ev.kind = "tls" ->
               IF TLSFailed(ev.err)
               THEN CallReturn(c, h, ConnectError(h, ev.err))
               ELSE [c EXCEPT !.pc = "shake"]
          [] ev.kind = "write" ->
               LET data == RequestBytes(h, Target, ev.order)
                   w    == [c EXCEPT !.wrote = data]
               IN  IF ev.err # Nil
                   THEN CallShakeReturn(w, h,
                            [panic |-> FALSE,
                             err |-> WriteFailureResult(h, ev.err)])
                   ELSE [w EXCEPT !.pc = "read", !.total = Len(data)]
          [] ev.kind = "read" ->
               IF ev.err # Nil
               THEN CallShakeReturn(c, h,
                        [panic |-> FALSE,
                         err |-> ReadFailureResult(h, ev.err)])
               ELSE IF UsesExplicitHeaders(h)
               THEN CallShakeReturn(c, h,
                        ClassifyExplicit(SubSeq(ev.data, 1, ev.n)
                                           \o Repeat(NUL, c.total - ev.n)))
               ELSE LET resp == ReadResponse(ev.data)
                    IN  CallShakeReturn(c, h,
                            [panic |-> FALSE,
                             err |-> IF resp.err # Nil THEN resp.err
                                     ELSE ClassifyStructured(resp)])

\* the adapter h after a call on it has taken the step for ev: no step of
\* the pipeline assigns to a field of its receiver
AdapterAfterStoresAuth(h, ev) ==
    IF ev.kind = "write" /\ HasCredentials(h)
    THEN [h EXCEPT !.option.Headers =
                      ("Proxy-Authorization" :> BasicAuth(h)) @@ @]
    ELSE h
AdapterAfter(h, ev) == h

InitConc ==
    /\ \E cfg \in CallConfigs : built = << Built(cfg.A), Built(cfg.B) >>
    /\ adapters = [ n \in { built[i].option.Name : i \in 1..Len(built) } |->
                      LET i == CHOOSE j \in 1..Len(built) :
                                   built[j].option.Name = n
                      IN  built[i].res.h[1] ]
    /\ calls \in [ 1..NCalls -> { NewCall(n) : n \in Names } ]
    \* calls are interchangeable: those on A are numbered first
    /\ \A p \in 1..(NCalls - 1) : calls[p].h = "B" => calls[p + 1].h = "B"
    /\ deadline = NoDeadline
    /\ cancelled = FALSE
    /\ now = 0
    /\ stack = << >>
    /\ stream = "none"
    /\ io = << >>

\* call p takes its next step, of the given kind
CallAdvance(p, kind) ==
    /\ \E ev \in RemoteEvents(adapters, calls[p]) :
         /\ ev.kind = kind
         /\ calls' = [calls EXCEPT ![p] =
                        [CallStep(adapters, @, ev) EXCEPT
                           !.seen = Append(@, ev)]]
         /\ adapters' = [adapters EXCEPT ![calls[p].h] = AdapterAfter(@, ev)]
    /\ UNCHANGED <<built, deadline, cancelled, now, stack, stream, io>>

CallResolve ==
    \E p \in 1..NCalls :
        /\ calls[p].pc = "start"
        /\ CallAdvance(p, "resolve")

CallDial ==
    \E p \in 1..NCalls :
        /\ calls[p].pc = "dial"
        /\ CallAdvance(p, "dial")

CallTLS ==
    \E p \in 1..NCalls :
        /\ calls[p].pc = "tls"
        /\ CallAdvance(p, "tls")

CallWrite ==
    \E p \in 1..NCalls :
        /\ calls[p].pc = "shake"
        /\ CallAdvance(p, "write")

CallRead ==
    \E p \in 1..NCalls :
        /\ calls[p].pc = "read"
        /\ CallAdvance(p, "read")

NextConc ==
    \/ CallResolve
    \/ CallDial
    \/ CallTLS
    \/ CallWrite
    \/ CallRead

SpecConc == InitConc /\ [][NextConc]_vars

(***************************************************************************)
(* Properties.                                                             *)
(***************************************************************************)
\* the call on top of the stack has returned
Returned == Top.pc = "done"

\* the last network operation was done by the call on top of the stack
LastIoIsTops ==
    /\ Len(io) > 0
    /\ io[Len(io)].h = Top.h
    /\ io[Len(io)].depth = Len(stack)

\* the first line of a response text, without its line end
FirstLine(data) == TrimCR(Split(data, "\n")[1])

\* the call on top returned after shakeHand parsed a response in structured
\* mode
StructuredParsed ==
    /\ Returned
    /\ ~("Host" \in DOMAIN adapters[Top.h].option.Headers)
    /\ LastIoIsTops
    /\ io[Len(io)].kind = "read"
    /\ io[Len(io)].err = Nil

\* C1: in structured mode every parsed status code is classified, always
\* the same way: 200 is success, 407 the auth-required rejection, 405 the
\* method-not-allowed rejection, a code of 500 or more a failure with the
\* status text, any other code a failure with the code in its detail.
C1_StructuredClassification ==
    StructuredParsed =>
        LET line   == FirstLine(io[Len(io)].data)
            status == SubSeq(line, 10, Len(line))
            code   == Atoi(SubSeq(line, 10, 12))
        IN  Top.err =
              (CASE code = 200 -> Nil
                 [] code = 407 -> "HTTP need auth"
                 [] code = 405 -> "CONNECT method not allowed by proxy"
                 [] code \notin {200, 407, 405} /\ code >= 500 -> status
                 [] OTHER -> "can not connect remote err code: " \o Itoa(code))

\* C1 witness: a parsed code outside 200, 405, 407 and 5xx was classified
C1_Witness ==
    /\ StructuredParsed
    /\ io[Len(io)].data = Resp("404", "Gone")
    /\ Top.err = "can not connect remote err code: 404"

\* C2: after a failed write of the CONNECT request, in either variant, the
\* call returns an error and no connection.
C2_WriteFailureIsError ==
    (/\ Returned
     /\ LastIoIsTops
     /\ io[Len(io)].kind = "write"
     /\ io[Len(io)].err # Nil)
    => (Top.err # Nil /\ Top.c = Nil)

\* C3: a call returns a connection only after a response was read from the
\* remote and its status was 200.
C3_SuccessOnlyOn200 ==
    (Returned /\ Top.err = Nil) =>
        /\ LastIoIsTops
        /\ io[Len(io)].kind = "read"
        /\ io[Len(io)].err = Nil
        /\ LET toks == Split(FirstLine(io[Len(io)].data), " ")
           IN  Len(toks) >= 2 /\ toks[2] = "200"

\* the dial of call frame f succeeded
DialSucceeded(f) ==
    /\ Len(f.log) >= 2
    /\ f.log[2].stage = "dial"
    /\ f.log[2].err = Nil

\* C4: when a call whose dial succeeded returns an error, the stream is
\* closed; when it returns a connection, the stream is open; no call
\* returns an error and leaves the stream open.
C4_StreamClosedOnError ==
    Returned =>
        /\ (Top.err # Nil /\ DialSucceeded(Top)) => stream = "closed"
        /\ Top.err # Nil => stream # "open"
        /\ Top.err = Nil => (Top.c # Nil /\ stream = "open")

\* C4 witness: a call returned an error after its dial had succeeded
C4_Witness ==
    /\ Returned
    /\ DialSucceeded(Top)
    /\ Top.err = "HTTP need auth"
    /\ stream = "closed"

\* the stages of the pipeline of adapter h, in order
StageOrder(h) ==
    <<"resolve", "dial">> \o (IF h.option.TLS THEN <<"tls">> ELSE << >>)
    \o <<"handshake", "wrap">>

C6_TLSBoundedByFixedTimeout ==
    \A k \in 1..Len(io) :
        io[k].kind = "tls" =>
            LET e == io[k]
            IN  /\ e.err = Pending => now - e.t0 <= DefaultTLSTimeout
                /\ e.err # Pending => e.t1 - e.t0 <= DefaultTLSTimeout
                /\ (e.err # Pending /\ e.t1 - e.t0 >= DefaultTLSTimeout) =>
                     e.err = "context deadline exceeded"
                /\ (k = Len(io) /\ e.err \notin {Nil, Pending}
                    /\ e.depth = Len(stack)) =>
                     (Returned /\ Top.err = ConnectError(adapters[e.h], e.err))

\* C6 witness: a handshake timed out under a caller's context that was not
\* done
C6_Witness ==
    /\ Returned
    /\ LastIoIsTops
    /\ io[Len(io)].kind = "tls"
    /\ io[Len(io)].err = "context deadline exceeded"
    /\ ~CtxDone

\* an operation that can block is in flight
Blocked ==
    \/ Top.pc = "dial" /\ Top.via = ""
    \/ Top.pc = "tls"
    \/ Top.pc = "read"

\* C7: once the caller's context is done (cancelled, or past its deadline)
\* the blocking operation in flight is aborted: no time passes in it and
\* its call returns an error.
C7_CancelAborts ==
    [][ (CtxDone /\ Blocked) =>
          /\ now' = now
          /\ \/ stack' = stack
             \/ /\ Len(stack') = Len(stack)
                /\ stack'[Len(stack')].pc = "done"
                /\ stack'[Len(stack')].err # Nil ]_vars

\* the network operations done by the call at depth i
IoOf(i) == { k \in 1..Len(io) : io[k].depth = i }

\* C8: a call on an adapter whose chain target is not registered returns
\* the unknown-adapter error without any network operation; a call on an
\* adapter without chain target dials with the dialer it was given.
C8_UnknownAdapterNoIO ==
    \A i \in 1..Len(stack) :
        LET f == stack[i]
            p == adapters[f.h].option.DialerProxy
        IN  /\ (p # "" /\ p \notin Names) =>
                 /\ f.pc \in {"start", "done"}
                 /\ f.pc = "done" =>
                      (f.err = "UnknownAdapterError: " \o p /\ f.c = Nil)
                 /\ IoOf(i) = {}
                 /\ i = Len(stack)
            /\ p = "" =>
                 /\ f.via = ""
                 /\ i = Len(stack)
                 /\ f.pc # "start" => f.log[1].err = Nil

\* C8 witness: a chained dial ended at an unknown chain target
C8_Witness ==
    /\ Returned
    /\ Len(stack) = 2
    /\ Top.err = "UnknownAdapterError: X"
    /\ io = << >>

RECURSIVE ValuesOf(_, _, _)
\* the values of the header lines called name among lines[i..]
ValuesOf(lines, name, i) ==
    IF i > Len(lines) THEN << >>
    ELSE LET l == TrimCR(lines[i])
             n == Len(name) + 2
         IN  (IF Len(l) >= n /\ SubSeq(l, 1, n) = name \o ": "
              THEN << SubSeq(l, n + 1, Len(l)) >> ELSE << >>)
             \o ValuesOf(lines, name, i + 1)

\* the Proxy-Authorization values of a request text
AuthValues(data) == ValuesOf(Split(data, "\n"), "Proxy-Authorization", 2)

\* Basic plus the standard base64 encoding of user:pass, from test vectors
ExpectedBasic(user, pass) ==
    CASE user = "u"  /\ pass = "p"  -> "Basic dTpw"
      [] user = "u"  /\ pass = "pw" -> "Basic dTpwdw=="
      [] user = "us" /\ pass = "p"  -> "Basic dXM6cA=="
      [] user = "us" /\ pass = "pw" -> "Basic dXM6cHc="

\* the Proxy-Authorization values shakeHand adds from the credentials of h
OwnAuth(h) ==
    IF h.user # "" /\ h.pass # ""
    THEN << ExpectedBasic(h.user, h.pass) >> ELSE << >>

\* C10 as stated: the request holds a Proxy-Authorization header exactly
\* when user and password are both non-empty, then once, with the value
\* Basic plus base64 of user:pass.
C10_AuthHeaderIffCredentials ==
    \A k \in 1..Len(io) :
        io[k].kind = "write" =>
            AuthValues(io[k].data) = OwnAuth(adapters[io[k].h])

\* C10 amended: shakeHand adds one Proxy-Authorization header of its own,
\* Basic plus base64 of user:pass, exactly when user and password are both
\* non-empty; it follows the entry the configured headers may hold under
\* that name, which is written as well.
C10_AuthHeaderAdded ==
    \A k \in 1..Len(io) :
        io[k].kind = "write" =>
            LET h   == adapters[io[k].h]
                cfg == h.option.Headers
            IN  AuthValues(io[k].data) =
                  (IF "Proxy-Authorization" \in DOMAIN cfg
                   THEN << cfg["Proxy-Authorization"] >> ELSE << >>)
                  \o OwnAuth(h)

\* C10 witness: a request was written that carries the header of the
\* credentials us:pw
C10_Witness ==
    /\ Len(io) > 0
    /\ io[Len(io)].kind = "write"
    /\ adapters[io[Len(io)].h].user = "us"
    /\ adapters[io[Len(io)].h].pass = "pw"
    /\ AuthValues(io[Len(io)].data) = << "Basic dXM6cHc=" >>

\* C11: when shakeHand has read a response and returned success, the bytes
\* it took from the stream are exactly the bytes of the response: none of
\* the response is left unread and no byte behind it is taken.
C11_PositionedAfterResponse ==
    (Returned /\ Top.err = Nil /\ LastIoIsTops
       /\ io[Len(io)].kind = "read" /\ io[Len(io)].err = Nil)
        => io[Len(io)].off = 0

\* C12: a construction whose fingerprint is set but names no known profile
\* fails and yields no adapter, whatever the other options are, TLS
\* disabled included.
C12_UnknownFingerprintFails ==
    \A i \in 1..Len(built) :
        LET o == built[i].option
            r == built[i].res
        IN  (o.Fingerprint # "" /\ o.Fingerprint \notin KnownFingerprints)
                => (r.err # Nil /\ r.h = << >>)

\* C13: a construction whose port is outside 1..65535 fails with an error
\* and yields no adapter; a construction that succeeds with a port inside
\* the range has the address server ":" port, the port in decimal without
\* leading zeros.
C13_PortRangeAndAddress ==
    \A i \in 1..Len(built) :
        LET o == built[i].option
            r == built[i].res
        IN  /\ o.Port \notin 1..65535 => (r.err # Nil /\ r.h = << >>)
            /\ (o.Port \in 1..65535 /\ r.err = Nil) =>
                 LET parts == Split(r.h[1].addr, ":")
                 IN  /\ Len(parts) = 2
                     /\ parts[1] = o.Server
                     /\ AllDigits(parts[2])
                     /\ Head(parts[2]) # "0"
                     /\ Atoi(parts[2]) = o.Port


\* the network operations of one kind done by the call at depth d
IoOfKind(d, kind) ==
    { i \in 1..Len(io) : io[i].depth = d /\ io[i].kind = kind }

\* the entries of stage in the stage log of frame f
StageEntries(f, stage) ==
    { i \in 1..Len(f.log) : f.log[i].stage = stage }

\* C14: no stage is retried: every call, at every depth of the chain, starts
\* each of its stages at most once, and does at most one dial, one TLS
\* handshake, one request write and one response read.
C14_NoStageRetried ==
    /\ \A d \in 1..MaxDepth :
         \A kind \in {"dial", "tls", "write", "read"} :
           Cardinality(IoOfKind(d, kind)) <= 1
    /\ \A d \in 1..Len(stack) :
         \A stage \in {"resolve", "dial", "tls", "handshake", "wrap"} :
           Cardinality(StageEntries(stack[d], stage)) <= 1

\* a call that dialled, completed TLS and failed to write its request has
\* returned the error after one attempt of each
C14_Witness ==
    /\ Len(stack) = 1 /\ Returned /\ Top.err # Nil
    /\ Cardinality(IoOfKind(1, "dial")) = 1
    /\ Cardinality(IoOfKind(1, "tls")) = 1
    /\ Cardinality(IoOfKind(1, "write")) = 1
    /\ io[Len(io)].kind = "write"
    /\ io[Len(io)].err \in WriteErrors

\* the text of s before the first occurrence of the byte c (all of s when
\* there is none)
Before(s, c) ==
    IF IndexFrom(s, c, 1) = 0 THEN s ELSE SubSeq(s, 1, IndexFrom(s, c, 1) - 1)

\* the text of s behind the first occurrence of the byte c
Behind(s, c) == SubSeq(s, IndexFrom(s, c, 1) + 1, Len(s))

\* the call on top of the stack is in explicit-header mode and has returned
\* after a read that delivered a buffer whose first line holds a space
ExplicitClassified ==
    /\ Returned /\ LastIoIsTops
    /\ "Host" \in DOMAIN adapters[Top.h].option.Headers
    /\ io[Len(io)].kind = "read" /\ io[Len(io)].err = Nil
    /\ IndexFrom(Before(io[Len(io)].data, "\n"), " ", 1) > 0

\* C15: in explicit-header mode, after a successful read, the outcome is
\* decided by the second space-separated token of the first line of the
\* buffer: "200" is success, "407" the authentication-required failure,
\* "405" the method-not-allowed failure, and every other token a failure
\* whose text is the raw buffer.
C15_ExplicitClassification ==
    ExplicitClassified =>
        LET rd    == io[Len(io)].data
            token == Before(Behind(Before(rd, "\n"), " "), " ")
        IN  Top.err = IF token = "200" THEN Nil
                      ELSE IF token = "407" THEN "HTTP need auth"
                      ELSE IF token = "405"
                      THEN "CONNECT method not allowed by proxy"
                      ELSE rd

\* an explicit-mode call has failed with the raw text of a 503 response
C15_Witness ==
    /\ ExplicitClassified
    /\ Before(Behind(io[Len(io)].data, " "), " ") = "503"
    /\ Top.err = io[Len(io)].data

\* C16: the explicit-header handshake is total: whatever the read delivers,
\* shakeHand ends with success or a failure and never crashes.
C16_ExplicitHandshakeTotal ==
    \A d \in 1..Len(stack) :
        "Host" \in DOMAIN adapters[stack[d].h].option.Headers
            => stack[d].pc # "panic"

\* the lines of a request text, each without its line end
LinesOf(data) ==
    LET raw == Split(data, "\n")
    IN  [ i \in 1..Len(raw) |-> TrimCR(raw[i]) ]

\* every line of a request text but the empty rest behind the last line
\* break ends in CR LF
EndsInCRLF(data) ==
    LET raw == Split(data, "\n")
    IN  /\ raw[Len(raw)] = ""
        /\ \A i \in 1..(Len(raw) - 1) :
             Len(raw[i]) > 0 /\ SubSeq(raw[i], Len(raw[i]), Len(raw[i])) = "\r"

\* the request written by the call at depth d is the one C17 describes
RequestAsConfigured(d, i) ==
    LET h      == adapters[stack[d].h]
        cfg    == h.option.Headers
        target == stack[d].target
        data   == io[i].data
        auth   == IF h.user # "" /\ h.pass # ""
                  THEN << "Proxy-Authorization: "
                            \o ExpectedBasic(h.user, h.pass) >>
                  ELSE << >>
    IN  /\ EndsInCRLF(data)
        /\ IF "Host" \in DOMAIN cfg
           THEN \E order \in Orders(DOMAIN cfg) :
                  LinesOf(data) =
                      << "CONNECT " \o target \o "HTTP/1.1" >>
                      \o [ j \in 1..Len(order) |->
                             order[j] \o ": " \o cfg[order[j]] ]
                      \o auth \o << "", "" >>
           ELSE /\ LinesOf(data)[1] = "CONNECT " \o target \o " HTTP/1.1"
                /\ ValuesOf(Split(data, "\n"), "Proxy-Connection", 2)
                     = << "Keep-Alive" >>
                /\ \A k \in DOMAIN cfg :
                     \E j \in 2..Len(LinesOf(data)) :
                       /\ IndexFrom(LinesOf(data)[j], ":", 1) = Len(k) + 1
                       /\ CanonicalMIMEHeaderKey(Before(LinesOf(data)[j], ":"))
                            = CanonicalMIMEHeaderKey(k)
                       /\ Behind(LinesOf(data)[j], ":") = " " \o cfg[k]

\* C17: the request variant is chosen by the presence of the key "Host"
\* among the configured headers alone.  With it the bytes written are the
\* request line for the target, every configured header once as a
\* "Key: Value" line, the Proxy-Authorization line when both credentials
\* are set, and one blank line.  Without it the request is a CONNECT to the
\* target that carries "Proxy-Connection: Keep-Alive" and every configured
\* header (names compared without regard to case).
C17_RequestVariant ==
    \A d \in 1..Len(stack) :
        \A i \in IoOfKind(d, "write") : RequestAsConfigured(d, i)

\* the option the adapter called name was constructed from
OptionOf(name) ==
    built[CHOOSE i \in 1..Len(built) : built[i].option.Name = name].option

\* C18: a call performs the TLS handshake in StreamConn exactly when its
\* adapter was constructed with TLS enabled: with TLS disabled it has no
\* TLS stage and no TLS handshake, with TLS enabled every call whose dial
\* succeeded starts one, and no request is written before a TLS handshake
\* of that call has succeeded.
C18_TLSIffEnabled ==
    \A d \in 1..Len(stack) :
        LET f == stack[d]
        IN  IF OptionOf(f.h).TLS
            THEN /\ DialSucceeded(f) => IoOfKind(d, "tls") # {}
                 /\ \A w \in IoOfKind(d, "write") :
                      \E t \in IoOfKind(d, "tls") : t < w /\ io[t].err = Nil
            ELSE /\ IoOfKind(d, "tls") = {}
                 /\ StageEntries(f, "tls") = {}

\* a call on an adapter with TLS enabled has written its request after its
\* TLS handshake succeeded, through a chained adapter with TLS disabled
\* that wrote its request without any TLS handshake
C18_Witness ==
    /\ Len(stack) = 1
    /\ OptionOf(Top.h).TLS
    /\ IoOfKind(1, "write") # {}
    /\ \E t \in IoOfKind(1, "tls") : io[t].err = Nil
    /\ \E w \in IoOfKind(2, "write") :
         ~OptionOf(io[w].h).TLS /\ IoOfKind(2, "tls") = {}

\* the terminal class of a finished call
Class(c) ==
    IF c.pc = "panic" THEN "crashed"
    ELSE IF c.err = Nil THEN "established"
    ELSE IF c.err = "HTTP need auth" THEN "auth-required"
    ELSE IF c.err = "CONNECT method not allowed by proxy"
    THEN "method-not-allowed"
    ELSE "failed"

Finished(c) == c.pc \in {"done", "panic"}

\* what the remote did during the handshake of call c: the outcome of the
\* write, and the read failure or the response text
HandshakeOf(c) ==
    LET hs == SelectSeq(c.seen, LAMBDA e : e.kind \in {"write", "read"})
    IN  [ i \in 1..Len(hs) |-> << hs[i].kind, hs[i].err, hs[i].data >> ]

\* C19: a call in explicit-header mode and a call in structured mode whose
\* remotes behaved alike during the handshake (same write outcome, same
\* read failure or same response text) end in the same terminal class.
C19_VariantsAgree ==
    \A p, q \in 1..NCalls :
        ( /\ Finished(calls[p]) /\ Finished(calls[q])
          /\ UsesExplicitHeaders(adapters[calls[p].h])
          /\ ~UsesExplicitHeaders(adapters[calls[q].h])
          /\ HandshakeOf(calls[p]) # << >>
          /\ HandshakeOf(calls[p]) = HandshakeOf(calls[q]) )
        => Class(calls[p]) = Class(calls[q])

\* the registry as constructed
InitialRegistry ==
    [ n \in { built[i].option.Name : i \in 1..Len(built) } |->
        built[CHOOSE i \in 1..Len(built) : built[i].option.Name = n].res.h[1] ]

RECURSIVE Alone(_, _, _)
\* the call c after the events seen[i], seen[i+1], ... when it runs alone
\* on the registry as constructed
Alone(c, seen, i) ==
    IF i > Len(seen) THEN c
    ELSE Alone([CallStep(InitialRegistry, c, seen[i]) EXCEPT
                  !.seen = Append(@, seen[i])], seen, i + 1)

====
